---- MODULE Spec2Model ----
(***************************************************************************)
(* A model of flac_toolkit: the manual block scanner, the metadata         *)
(* validator, the audio MD5 engine and the audio-signature worker.         *)
(*                                                                         *)
(* Each component is a state machine over its own group of variables and   *)
(* has its own specification (SpecScanner, SpecValidator, SpecChecksum,    *)
(* SpecSignature); the variables of the components a specification does    *)
(* not run stay at their idle values.  Bytes are naturals 0..255, a file   *)
(* is the sequence of its bytes, Python's Optional[str] is a sequence of   *)
(* at most one string, and numpy buffers are laid out as on a              *)
(* little-endian host.                                                     *)
(***************************************************************************)
EXTENDS Integers, Sequences, FiniteSets, TLC

VARIABLES
    \* ---- _check_file_header_manually (analyzer.py:105-127)
    file,          \* the bytes of the file at file_path
    f_pos,         \* the position of the file object f
    pc,            \* where the scanner is: idle, open, read_sig, loop, done
    header_info,   \* the dict the scanner builds and returns
    io_trace,      \* every f.read / f.seek performed, in order
    \* ---- _analyze_metadata_blocks (analyzer.py:129-147, main.py:109-116)
    blocks,        \* the block list handed to the validator
    v_pc,          \* analyzer._analyze_metadata_blocks: idle, call, done
    v_errors,      \* the list it returned
    v_legacy_pc,   \* FLACToolkit._analyze_metadata_blocks: idle, call, done
    v_legacy_errors, \* the list it returned
    \* ---- the audio of the file under test, as the libraries deliver it
    bits_per_sample, \* audio.info.bits_per_sample
    stream,        \* the decoded samples, interleaved, as true sample values
    dec_fail,      \* <<>>, or <<[after, msg]>>: soundfile raises after `after` blocks
    \* ---- _calculate_audio_md5 (analyzer.py:170-209)
    m_pc,          \* idle, call, done
    m_result,      \* the (md5_hex, error_message) returned, with what was consumed
    \* ---- _get_audio_signature (dedupe.py:28-47)
    md5_signature, \* audio.info.md5_signature, as its 16 big-endian bytes
    tag_fail,      \* <<>>, or <<msg>>: FLAC(file_path) raises
    s_pc,          \* idle, call, done
    s_result,      \* the (file_path, signature_hex, error_message) returned
    s_engine_calls, \* how often the worker called _calculate_audio_md5
    \* ---- find_duplicates (dedupe.py:50-109)
    disk,          \* path -> the FLAC file stored there
    files,         \* list(find_flac_files(target_paths)), in discovery order
    workers,       \* the workers argument: <<>> for None, or <<n>>
    d_pc,          \* idle, start, scan, verify, done, raised
    d_i,           \* sequential mode: how many files the for loop has taken
    d_pending,     \* parallel mode: the futures as_completed has not yielded yet
    audio_map,     \* the defaultdict(list), as its items in insertion order
    skipped,       \* path -> number of 'Skipping' warnings logged for it
    d_hashed,      \* the paths given to get_file_content_hash, in call order
    results,       \* the list of DuplicateGroup returned
    d_runs_left,   \* how many more times find_duplicates is run on this corpus
    d_first,       \* the buckets and strict groups of the previous run
    printed,       \* the lines print_duplicate_report wrote to stdout
    \* ---- analyze_flac_comprehensive (analyzer.py:18-103)
    a_pc,          \* idle, scan, done
    a_structural,  \* what FLAC() raises is a FLACNoHeaderError or HeaderNotFoundError
    name_error,    \* <<>>, or <<msg>>: validate_filename raises ValidationError
    a_result,      \* the result dict returned
    \* ---- the analyze, repair and dedupe commands (cli.py:19-169)
    c_pc,          \* idle, start, pool, done
    c_cmd,         \* the command: analyze, repair or dedupe
    c_workers,     \* args.workers: <<>> for None, or <<n>>
    c_cpu,         \* os.cpu_count(): <<>> for None, or <<n>>
    c_nfiles,      \* len(files); the files are 1..c_nfiles in input order
    c_max_workers, \* <<>>, or <<w>>: ProcessPoolExecutor(max_workers=w) was called
    c_pending,     \* the futures as_completed has not yielded yet
    c_results,     \* analyze: the results list, each result named by its file
    \* ---- reencode_flac (repair.py:31-100)
    r_pc,          \* idle, start, failed, except, swap, rename, done, raised
    r_tool,        \* the encoder shutil.which finds: flac, ffmpeg or none
    r_windows,     \* rename refuses to replace an existing file
    r_no_backup,   \* the no_backup argument
    r_fs,          \* what is at input_path, at temp_output_path and in quarantine
    r_ret          \* unset, or what reencode_flac returned: None, input, temp

scanVars == <<file, f_pos, pc, header_info, io_trace>>
valVars  == <<blocks, v_pc, v_errors, v_legacy_pc, v_legacy_errors>>
audioVars == <<bits_per_sample, stream, dec_fail>>
md5Vars  == <<m_pc, m_result>>
sigVars  == <<md5_signature, tag_fail, s_pc, s_result, s_engine_calls>>
dedupeVars == <<disk, files, workers, d_pc, d_i, d_pending, audio_map, skipped,
                d_hashed, results, d_runs_left, d_first, printed>>
anaVars  == <<a_pc, a_structural, name_error, a_result>>
cliVars  == <<c_pc, c_cmd, c_workers, c_cpu, c_nfiles, c_max_workers, c_pending, c_results>>
repVars  == <<r_pc, r_tool, r_windows, r_no_backup, r_fs, r_ret>>
vars     == <<scanVars, valVars, audioVars, md5Vars, sigVars, dedupeVars, anaVars, cliVars, repVars>>

\* what the actions of one component leave alone
notScan == <<valVars, audioVars, md5Vars, sigVars, dedupeVars, anaVars, cliVars, repVars>>
notVal  == <<scanVars, audioVars, md5Vars, sigVars, dedupeVars, anaVars, cliVars, repVars>>

----------------------------------------------------------------------------
(* Bounds of the model *)

\* the longest run of bytes that follows the signature in a modelled file
MaxBody == 9

\* the longest list of files a command is run on
MaxCliFiles == 3

\* the largest --workers value requested and the largest os.cpu_count()
MaxWorkerRequest == 62
\* the longest block list handed to the validator
MaxBlocks == 2
\* the most samples a modelled audio stream holds
MaxSamples == 3
\* the frames per decoded block (block_size, 65536 in the code, scaled down)
BlockFrames == 2
\* the most samples of a stream handed to the audio-signature worker
MaxSigSamples == 2
\* the most files of a corpus handed to find_duplicates
MaxFiles == 4
\* the most files of a corpus on which find_duplicates is run twice
MaxFilesTwice == 3
\* the most samples of the audio of a file handed to analyze_flac_comprehensive
MaxAnaSamples == 1

----------------------------------------------------------------------------
(* Bytes and files *)

Min(a, b) == IF a <= b THEN a ELSE b

\* x & y on naturals, bit by bit
RECURSIVE BitAnd(_, _)
BitAnd(x, y) ==
    IF x = 0 \/ y = 0 THEN 0
    ELSE (IF x % 2 = 1 /\ y % 2 = 1 THEN 1 ELSE 0) + 2 * BitAnd(x \div 2, y \div 2)

\* b'fLaC'
FLAC_SIGNATURE == <<102, 76, 97, 67>>

\* the size of the signature and of a block header: the 4 of f.read(4)
HeaderLen == 4

\* the byte values the modelled files are made of: as the first byte of a
\* header 0 is STREAMINFO, 1 is PADDING (neither last) and 255 is type 127
\* with the last-block flag; as length bytes they give 0, 1, lengths past the
\* end of the file and 255 255 255, the largest length
ByteVals == {0, 1, 255}

\* beginnings that are not the signature
BadPrefixes ==
    { <<>>, <<102>>, <<102, 76, 97>>, <<102, 76, 97, 68>>,
      <<76, 97, 67, 102>>, <<0, 102, 76, 97, 67>> }

\* f is a modelled file: the signature and up to MaxBody bytes, or a
\* beginning that is not the signature and up to 4 bytes
IsModelledFile(f) ==
    \/ \E n \in 0..MaxBody : \E b \in [1..n -> ByteVals] : f = FLAC_SIGNATURE \o b
    \/ \E p \in BadPrefixes :
          \E n \in 0..HeaderLen : \E b \in [1..n -> ByteVals] : f = p \o b

\* f.read(n) at position p: the bytes returned (fewer than n at end of file)
ReadBytes(f, p, n) ==
    IF p >= Len(f) THEN <<>> ELSE SubSeq(f, p + 1, Min(p + n, Len(f)))

\* a seek from the start of the file instead of from the current position
SeekCur_Absolute(p, offset) == offset

\* a seek that leaves the position where it is
SeekCur_NoSkip(p, offset) == p

\* f.seek(offset, 1): the new position; seeking past the end is allowed
SeekCur(p, offset) == p + offset

\* a comparison that looks at the first three bytes only
IsSignature_ThreeBytes(data) ==
    Len(data) >= 3 /\ SubSeq(data, 1, 3) = SubSeq(FLAC_SIGNATURE, 1, 3)

\* f.read(4) == b'fLaC'
IsSignature(data) == data = FLAC_SIGNATURE

\* a loop that forgets to stop at the last block
LoopExits_Never(block) == FALSE

\* if is_last: break
LoopExits(block) == block.is_last

\* (block_header[0] & 0x80) != 0
HeaderIsLast(h) == BitAnd(h[1], 128) /= 0
\* block_header[0] & 0x7F
HeaderType(h) == BitAnd(h[1], 127)
\* the three length bytes read with the lowest byte first
HeaderLength_LittleEndian(h) == h[2] + h[3] * 256 + h[4] * 65536

\* struct.unpack('>I', b'\x00' + block_header[1:4])[0]
HeaderLength(h) == ((0 * 256 + h[2]) * 256 + h[3]) * 256 + h[4]

MetadataBlock(h) ==
    [type |-> HeaderType(h), length |-> HeaderLength(h), is_last |-> HeaderIsLast(h)]

\* str(e) of the OSError open() can raise
OpenErrors == {"[Errno 2] No such file or directory", "[Errno 13] Permission denied"}

ERR_EOF == "Unexpected end of file while reading a block header."
ERR_SIGNATURE == "Signature 'fLaC' not found at the beginning of the file."
ERR_LOW_LEVEL == "Low-level read error: "

----------------------------------------------------------------------------
(* The idle values of each component's variables *)

ScanIdle ==
    /\ file = <<>>
    /\ f_pos = 0
    /\ pc = "idle"
    /\ header_info = [is_flac |-> FALSE, metadata_blocks |-> <<>>, errors |-> <<>>]
    /\ io_trace = <<>>

ValIdle ==
    /\ blocks = <<>>
    /\ v_pc = "idle"
    /\ v_errors = <<>>
    /\ v_legacy_pc = "idle"
    /\ v_legacy_errors = <<>>

\* Python's None and a present value, for Optional[str]
None == <<>>
Some(x) == <<x>>
\* the truth value of an Optional[str]: None and the empty string are false
Truthy(o) == o /= None /\ o[1] /= ""

AudioIdle ==
    /\ bits_per_sample = 0
    /\ stream = <<>>
    /\ dec_fail = None

Md5Idle ==
    /\ m_pc = "idle"
    /\ m_result = <<>>

SigIdle ==
    /\ md5_signature = <<>>
    /\ tag_fail = None
    /\ s_pc = "idle"
    /\ s_result = <<>>
    /\ s_engine_calls = 0

DedupeIdle ==
    /\ disk = <<>>
    /\ files = <<>>
    /\ workers = None
    /\ d_pc = "idle"
    /\ d_i = 0
    /\ d_pending = {}
    /\ audio_map = <<>>
    /\ skipped = <<>>
    /\ d_hashed = <<>>
    /\ results = <<>>
    /\ d_runs_left = 0
    /\ d_first = <<>>
    /\ printed = <<>>

AnaIdle ==
    /\ a_pc = "idle"
    /\ a_structural = FALSE
    /\ name_error = None
    /\ a_result = <<>>

CliIdle ==
    /\ c_pc = "idle"
    /\ c_cmd = "none"
    /\ c_workers = None
    /\ c_cpu = None
    /\ c_nfiles = 0
    /\ c_max_workers = <<>>
    /\ c_pending = {}
    /\ c_results = <<>>

RepIdle ==
    /\ r_pc = "idle"
    /\ r_tool = "none"
    /\ r_windows = FALSE
    /\ r_no_backup = FALSE
    /\ r_fs = [path |-> "none", temp |-> "none", quarantine |-> "none"]
    /\ r_ret = "unset"

----------------------------------------------------------------------------
(* _check_file_header_manually *)

ScanInit ==
    /\ IsModelledFile(file)
    /\ f_pos = 0
    /\ pc = "open"
    /\ header_info = [is_flac |-> FALSE, metadata_blocks |-> <<>>, errors |-> <<>>]
    /\ io_trace = <<>>
    /\ ValIdle /\ AudioIdle /\ Md5Idle /\ SigIdle /\ DedupeIdle /\ AnaIdle /\ CliIdle /\ RepIdle

\* open(file_path, 'rb') succeeds
OpenOk ==
    /\ pc = "open"
    /\ pc' = "read_sig"
    /\ UNCHANGED <<file, f_pos, header_info, io_trace, notScan>>

\* open(file_path, 'rb') raises: the except branch
OpenFails ==
    /\ pc = "open"
    /\ \E e \in OpenErrors :
          header_info' = [header_info EXCEPT !.errors = Append(@, ERR_LOW_LEVEL \o e)]
    /\ pc' = "done"
    /\ UNCHANGED <<file, f_pos, io_trace, notScan>>

\* if f.read(4) == b'fLaC': ... else: ...
ReadSignature ==
    /\ pc = "read_sig"
    /\ LET data == ReadBytes(file, f_pos, HeaderLen) IN
          /\ f_pos' = f_pos + Len(data)
          /\ io_trace' = Append(io_trace, [op |-> "read", at |-> f_pos, n |-> Len(data)])
          /\ IF IsSignature(data)
                THEN /\ header_info' = [header_info EXCEPT !.is_flac = TRUE]
                     /\ pc' = "loop"
                ELSE /\ header_info' =
                            [header_info EXCEPT !.is_flac = FALSE,
                                                !.errors = Append(@, ERR_SIGNATURE)]
                     /\ pc' = "done"
    /\ UNCHANGED <<file, notScan>>

\* one iteration that finds fewer than 4 bytes: record the error and break
ShortRead ==
    /\ pc = "loop"
    /\ LET block_header == ReadBytes(file, f_pos, HeaderLen) IN
          /\ Len(block_header) < HeaderLen
          /\ f_pos' = f_pos + Len(block_header)
          /\ io_trace' =
                Append(io_trace, [op |-> "read", at |-> f_pos, n |-> Len(block_header)])
          /\ header_info' = [header_info EXCEPT !.errors = Append(@, ERR_EOF)]
          /\ pc' = "done"
    /\ UNCHANGED <<file, notScan>>

\* one iteration that reads a whole header: decode, append, seek, break if last
ParseBlock ==
    /\ pc = "loop"
    /\ LET block_header == ReadBytes(file, f_pos, HeaderLen)
           block == MetadataBlock(block_header)
           after == f_pos + Len(block_header)
       IN
          /\ Len(block_header) >= HeaderLen
          /\ header_info' =
                [header_info EXCEPT !.metadata_blocks = Append(@, block)]
          /\ f_pos' = SeekCur(after, block.length)
          /\ io_trace' =
                io_trace \o << [op |-> "read", at |-> f_pos, n |-> Len(block_header)],
                               [op |-> "seek", at |-> after, n |-> block.length] >>
          /\ pc' = IF LoopExits(block) THEN "done" ELSE "loop"
    /\ UNCHANGED <<file, notScan>>

ScanNext == OpenOk \/ OpenFails \/ ReadSignature \/ ShortRead \/ ParseBlock

SpecScanner == ScanInit /\ [][ScanNext]_vars

\* the scanner is straight-line sequential code: a step that can be taken is taken
SpecScannerFair == SpecScanner /\ WF_vars(ScanNext)

----------------------------------------------------------------------------
(* _analyze_metadata_blocks *)

\* constants.py
PADDING_SIZE_THRESHOLD_BYTES == 16777216
PADDING_BLOCK_TYPE == 1
\* main.py, local to FLACToolkit._analyze_metadata_blocks
PADDING_SIZE_THRESHOLD == 131072
\* the type of a SEEKTABLE block and the size of one seek point
SEEKTABLE_BLOCK_TYPE == 3
SEEKPOINT_SIZE == 18

Digit(d) == CASE d = 0 -> "0" [] d = 1 -> "1" [] d = 2 -> "2" [] d = 3 -> "3"
              [] d = 4 -> "4" [] d = 5 -> "5" [] d = 6 -> "6" [] d = 7 -> "7"
              [] d = 8 -> "8" [] d = 9 -> "9"

\* str(n) of a natural number
RECURSIVE IntToStr(_)
IntToStr(n) == IF n < 10 THEN Digit(n) ELSE IntToStr(n \div 10) \o Digit(n % 10)

\* f"{n / d:.0f}": the quotient rounded to the nearest integer, ties to even
RoundHalfEven(n, d) ==
    LET q == n \div d
        r == n % d
    IN  IF 2 * r > d \/ (2 * r = d /\ q % 2 = 1) THEN q + 1 ELSE q

ERR_STREAMINFO == "Critical: STREAMINFO block missing"

PaddingError(length) ==
    "Metadata Error: PADDING block with abnormal size detected ("
        \o IntToStr(RoundHalfEven(length, 1024))
        \o " KB). This indicates probable corruption."

SeektableError(length) ==
    "Metadata Error: SEEKTABLE has invalid size (" \o IntToStr(length)
        \o " bytes), must be multiple of 18."

\* a check that looks at the first block only
StreaminfoMissing_FirstOnly(bs) == bs = <<>> \/ bs[1].type /= 0

\* a check that wants exactly one block of type 0
StreaminfoMissing_NotExactlyOne(bs) ==
    Cardinality({i \in 1..Len(bs) : bs[i].type = 0}) /= 1

\* not any(b['type'] == 0 for b in blocks)
StreaminfoMissing(bs) == ~(\E i \in 1..Len(bs) : bs[i].type = 0)

\* the padding rule at the threshold of main.py
PaddingTooLarge_LegacyThreshold(block) ==
    block.type = PADDING_BLOCK_TYPE /\ block.length > PADDING_SIZE_THRESHOLD

\* block['type'] == PADDING_BLOCK_TYPE and block['length'] > PADDING_SIZE_THRESHOLD_BYTES
PaddingTooLarge(block) ==
    block.type = PADDING_BLOCK_TYPE /\ block.length > PADDING_SIZE_THRESHOLD_BYTES

\* a comparison that also rejects a padding of exactly the threshold
LegacyPaddingTooLarge_AtThreshold(block) ==
    block.type = 1 /\ block.length >= PADDING_SIZE_THRESHOLD

\* block['type'] == 1 and block['length'] > PADDING_SIZE_THRESHOLD
LegacyPaddingTooLarge(block) ==
    block.type = 1 /\ block.length > PADDING_SIZE_THRESHOLD

\* a seek point size of 16 instead of 18
SeektableInvalid_Sixteen(block) ==
    block.type = SEEKTABLE_BLOCK_TYPE /\ block.length % 16 /= 0

\* block['type'] == 3 and block['length'] % 18 != 0
SeektableInvalid(block) ==
    block.type = SEEKTABLE_BLOCK_TYPE /\ block.length % SEEKPOINT_SIZE /= 0

\* a loop that stops at the first block with a finding
RECURSIVE BlockLoop_StopAtFirst(_, _)
BlockLoop_StopAtFirst(bs, errors) ==
    IF bs = <<>> THEN errors
    ELSE IF PaddingTooLarge(Head(bs))
       THEN Append(errors, PaddingError(Head(bs).length))
    ELSE IF SeektableInvalid(Head(bs))
       THEN Append(errors, SeektableError(Head(bs).length))
    ELSE BlockLoop_StopAtFirst(Tail(bs), errors)

\* for block in blocks: ... of analyzer._analyze_metadata_blocks
RECURSIVE BlockLoop(_, _)
BlockLoop(bs, errors) ==
    IF bs = <<>> THEN errors
    ELSE LET block == Head(bs)
             e1 == IF PaddingTooLarge(block)
                      THEN Append(errors, PaddingError(block.length)) ELSE errors
             e2 == IF SeektableInvalid(block)
                      THEN Append(e1, SeektableError(block.length)) ELSE e1
         IN  BlockLoop(Tail(bs), e2)

\* analyzer._analyze_metadata_blocks(blocks)
AnalyzeMetadataBlocks(bs) ==
    BlockLoop(bs, IF StreaminfoMissing(bs) THEN <<ERR_STREAMINFO>> ELSE <<>>)

\* FLACToolkit._analyze_metadata_blocks(blocks) of main.py
RECURSIVE LegacyAnalyzeMetadataBlocks(_)
LegacyAnalyzeMetadataBlocks(bs) ==
    IF bs = <<>> THEN <<>>
    ELSE (IF LegacyPaddingTooLarge(Head(bs))
             THEN <<PaddingError(Head(bs).length)>> ELSE <<>>)
         \o LegacyAnalyzeMetadataBlocks(Tail(bs))

\* The block lists the scanner can hand over: any types and 24-bit lengths,
\* the last-block flag on the final block or on none.
BlockTypes == {0, 1, 3, 4}
BlockLengths == {0, 18, 19, 131072, 131073, 200000, 16777215}

\* blocks is a list of n blocks with the types t and the lengths l
IsBlockList(bs, n, t, l, last) ==
    bs = [i \in 1..n |-> [type |-> t[i], length |-> l[i], is_last |-> (i = n /\ last)]]

ValInit ==
    /\ \E n \in 0..MaxBlocks :
          \E t \in [1..n -> BlockTypes], l \in [1..n -> BlockLengths], last \in BOOLEAN :
             IsBlockList(blocks, n, t, l, last)
    /\ v_pc = "call"
    /\ v_errors = <<>>
    /\ v_legacy_pc = "call"
    /\ v_legacy_errors = <<>>
    /\ ScanIdle /\ AudioIdle /\ Md5Idle /\ SigIdle /\ DedupeIdle /\ AnaIdle /\ CliIdle /\ RepIdle

Analyze ==
    /\ v_pc = "call"
    /\ v_errors' = AnalyzeMetadataBlocks(blocks)
    /\ v_pc' = "done"
    /\ UNCHANGED <<blocks, v_legacy_pc, v_legacy_errors, notVal>>

LegacyAnalyze ==
    /\ v_legacy_pc = "call"
    /\ v_legacy_errors' = LegacyAnalyzeMetadataBlocks(blocks)
    /\ v_legacy_pc' = "done"
    /\ UNCHANGED <<blocks, v_pc, v_errors, notVal>>

ValNext == Analyze \/ LegacyAnalyze

SpecValidator == ValInit /\ [][ValNext]_vars

----------------------------------------------------------------------------
(* The audio of a file, as mutagen and soundfile deliver it *)

\* declared bit depths: the two the engine supports and three it does not
BitDepths == {8, 16, 20, 24, 32}

\* true sample values per bit depth; the extremes, the byte boundaries and
\* negative values are there
SampleValues(bits) ==
    CASE bits = 16 -> {-32768, -257, -1, 0, 1, 255, 256, 32767}
      [] bits = 24 -> {-8388608, -8388607, -65536, -257, -1, 0, 1, 255, 256,
                       65536, 8388607}
      [] OTHER     -> {-1, 0, 1}

\* str(e) of what soundfile can raise; the empty text is str(MemoryError())
DecodeErrors == {"", "Error opening 'a.flac': Format not recognised."}

\* the blocks f.blocks(blocksize=block_size) yields: block_size frames each, the
\* final one shorter
RECURSIVE Chunk(_, _)
Chunk(smp, size) ==
    IF smp = <<>> THEN <<>>
    ELSE <<SubSeq(smp, 1, Min(size, Len(smp)))>>
            \o Chunk(SubSeq(smp, Min(size, Len(smp)) + 1, Len(smp)), size)

DecodeFailures(smp) ==
    {None} \cup { Some([after |-> k, msg |-> m]) :
                     k \in 0..Len(Chunk(smp, BlockFrames)), m \in DecodeErrors }

AudioInit(max) ==
    /\ bits_per_sample \in BitDepths
    /\ \E n \in 0..max : stream \in [1..n -> SampleValues(bits_per_sample)]
    /\ dec_fail \in DecodeFailures(stream)

\* the sample v as soundfile hands it over for dtype: int16 as it is, a 24-bit
\* sample in an int32 scaled by a left shift of 8 bits
Container(v, dtype) == IF dtype = "int32" THEN v * 256 ELSE v

----------------------------------------------------------------------------
(* _calculate_audio_md5 *)

\* no shift at all
ShiftRight_None(x, n) == x

\* x >> n on a signed numpy integer: an arithmetic shift
ShiftRight(x, n) == x \div (2 ^ n)

\* the k-th byte (from 0, least significant first) of a two's-complement integer
ByteOf(x, k) == (x \div (256 ^ k)) % 256

\* block.tobytes() of one int16 sample (little-endian host)
Int16Bytes(x) == <<ByteOf(x, 0), ByteOf(x, 1)>>

\* raw_24.view(np.uint8).reshape(-1, 4) of one int32 sample (little-endian host)
Int32Bytes(x) == <<ByteOf(x, 0), ByteOf(x, 1), ByteOf(x, 2), ByteOf(x, 3)>>

\* (block.astype(np.int32) >> 8).view(np.uint8).reshape(-1, 4)[:, :3] of one sample
Pack24(c) == SubSeq(Int32Bytes(ShiftRight(c, 8)), 1, 3)

\* the bytes md5.update() receives for one block of containers
RECURSIVE BlockBytes(_, _)
BlockBytes(block, dtype) ==
    IF block = <<>> THEN <<>>
    ELSE (IF dtype = "int32" THEN Pack24(Head(block)) ELSE Int16Bytes(Head(block)))
            \o BlockBytes(Tail(block), dtype)

RECURSIVE AllBlockBytes(_, _)
AllBlockBytes(bks, dtype) ==
    IF bks = <<>> THEN <<>>
    ELSE BlockBytes(Head(bks), dtype) \o AllBlockBytes(Tail(bks), dtype)

HexDigit(d) == CASE d < 10 -> Digit(d) [] d = 10 -> "a" [] d = 11 -> "b"
                 [] d = 12 -> "c" [] d = 13 -> "d" [] d = 14 -> "e" [] d = 15 -> "f"

RECURSIVE HexOfNibbles(_)
HexOfNibbles(ns) ==
    IF ns = <<>> THEN "" ELSE HexDigit(Head(ns)) \o HexOfNibbles(Tail(ns))

\* the hexadecimal digits of a big-endian byte string, two per byte
RECURSIVE Nibbles(_)
Nibbles(bs) ==
    IF bs = <<>> THEN <<>>
    ELSE <<Head(bs) \div 16, Head(bs) % 16>> \o Nibbles(Tail(bs))

\* hashlib.md5: a stand-in digest of 16 bytes, one-to-one on the byte strings
\* of fewer than 16 bytes and never all zero on them
Md5Digest(bytes) ==
    [j \in 1..16 |->
        LET slot == {i \in 1..Len(bytes) : ((i - 1) % 15) + 1 = j}
            RECURSIVE Sum(_)
            Sum(S) == IF S = {} THEN 0
                      ELSE LET i == CHOOSE x \in S : TRUE
                           IN  bytes[i] + Sum(S \ {i})
        IN  IF j = 16 THEN (Len(bytes) + 1) % 256 ELSE Sum(slot) % 256]

\* md5.hexdigest()
HexDigest(bytes) == HexOfNibbles(Nibbles(Md5Digest(bytes)))

\* a branch that takes every depth above 16 bits for 24-bit audio
DepthBranch_Wide(bits) == IF bits <= 16 THEN "int16" ELSE "int32"

\* if bits_per_sample == 16: ... elif bits_per_sample == 24: ... else: ...
DepthBranch(bits) ==
    CASE bits = 16 -> "int16"
      [] bits = 24 -> "int32"
      [] OTHER     -> "unsupported"

ERR_NOT_IMPLEMENTED(bits) ==
    "MD5 calculation not implemented for " \o IntToStr(bits) \o "-bit depth."

\* _calculate_audio_md5(file_path, bits_per_sample) on a file whose decoder
\* delivers smp and fails as fail says; blocks_read and fed record what was
\* taken from the decoder and given to md5.update()
CalculateAudioMd5(bits, smp, fail) ==
    LET dtype   == DepthBranch(bits)
        all     == Chunk([i \in 1..Len(smp) |-> Container(smp[i], dtype)], BlockFrames)
        yielded == IF fail = None THEN all ELSE SubSeq(all, 1, fail[1].after)
        fed     == AllBlockBytes(yielded, dtype)
    IN  IF dtype = "unsupported"
           THEN [md5 |-> None, err |-> Some(ERR_NOT_IMPLEMENTED(bits)),
                 opened |-> FALSE, blocks_read |-> 0, fed |-> <<>>]
        ELSE IF fail /= None
           THEN [md5 |-> None, err |-> Some(fail[1].msg),
                 opened |-> TRUE, blocks_read |-> Len(yielded), fed |-> fed]
        ELSE [md5 |-> Some(HexDigest(fed)), err |-> None,
              opened |-> TRUE, blocks_read |-> Len(yielded), fed |-> fed]

Md5Init ==
    /\ AudioInit(MaxSamples)
    /\ m_pc = "call"
    /\ m_result = <<>>
    /\ ScanIdle /\ ValIdle /\ SigIdle /\ DedupeIdle /\ AnaIdle /\ CliIdle /\ RepIdle

Md5Call ==
    /\ m_pc = "call"
    /\ m_result' = CalculateAudioMd5(bits_per_sample, stream, dec_fail)
    /\ m_pc' = "done"
    /\ UNCHANGED <<scanVars, valVars, audioVars, sigVars, dedupeVars, anaVars, cliVars, repVars>>

Md5Next == Md5Call

SpecChecksum == Md5Init /\ [][Md5Next]_vars

----------------------------------------------------------------------------
(* _get_audio_signature *)

FILE_PATH == "a.flac"

\* audio.info.md5_signature values, as 16 big-endian bytes: unset, 1, one with
\* a leading zero byte, one without
ZeroSignature == [j \in 1..16 |-> 0]
SignatureValues ==
    { ZeroSignature,
      [j \in 1..16 |-> IF j = 16 THEN 1 ELSE 0],
      [j \in 1..16 |-> IF j = 1 THEN 0 ELSE 171],
      [j \in 1..16 |-> 255 - j] }

\* str(e) of what FLAC(file_path) can raise
TagErrors == {"", "'a.flac' is not a valid FLAC file"}

RECURSIVE StripLeadingZeros(_)
StripLeadingZeros(ns) ==
    IF Len(ns) > 1 /\ Head(ns) = 0 THEN StripLeadingZeros(Tail(ns)) ELSE ns

\* format(sig, '032x'): the hexadecimal digits of the integer, padded with
\* zeros on the left to 32 characters
FormatHex032(sig) ==
    LET digits == StripLeadingZeros(Nibbles(sig))
        pad    == [i \in 1..(32 - Len(digits)) |-> 0]
    IN  HexOfNibbles(pad \o digits)

\* a worker that never trusts the header
SignatureUnset_Always(sig) == TRUE

\* sig == 0
SignatureUnset(sig) == \A j \in 1..Len(sig) : sig[j] = 0

\* _get_audio_signature(file_path): the tuple returned, and the number of
\* calls of _calculate_audio_md5 it made
GetAudioSignature(path, tagfail, sig, bits, smp, fail) ==
    IF tagfail /= None
       THEN [ret |-> <<path, None, Some(tagfail[1])>>, calls |-> 0]
    ELSE IF SignatureUnset(sig)
       THEN LET r == CalculateAudioMd5(bits, smp, fail)
            IN  [ret |-> IF Truthy(r.md5) THEN <<path, r.md5, None>>
                                          ELSE <<path, None, r.err>>,
                 calls |-> 1]
    ELSE [ret |-> <<path, Some(FormatHex032(sig)), None>>, calls |-> 0]

SigInit ==
    /\ \/ /\ tag_fail = None
          /\ md5_signature \in SignatureValues
          /\ AudioInit(MaxSigSamples)
       \/ /\ tag_fail \in {Some(m) : m \in TagErrors}
          /\ md5_signature = <<>>
          /\ AudioIdle
    /\ s_pc = "call"
    /\ s_result = <<>>
    /\ s_engine_calls = 0
    /\ ScanIdle /\ ValIdle /\ Md5Idle /\ DedupeIdle /\ AnaIdle /\ CliIdle /\ RepIdle

SigCall ==
    /\ s_pc = "call"
    /\ LET r == GetAudioSignature(FILE_PATH, tag_fail, md5_signature,
                                  bits_per_sample, stream, dec_fail)
       IN  /\ s_result' = r.ret
           /\ s_engine_calls' = r.calls
    /\ s_pc' = "done"
    /\ UNCHANGED <<md5_signature, tag_fail, scanVars, valVars, audioVars, md5Vars,
                   dedupeVars, anaVars, cliVars, repVars>>

SigNext == SigCall

SpecSignature == SigInit /\ [][SigNext]_vars

----------------------------------------------------------------------------
(* find_duplicates *)

\* a header signature that is set
SignatureA == [j \in 1..16 |-> 255 - j]

\* a FLAC file as find_duplicates meets it: what FLAC() and the decoder make
\* of it, and which tag block it carries; two files with the same fields have
\* the same bytes
DiskFile(tf, sig, bits, smp, fail, tags) ==
    [tag_fail |-> tf, md5_signature |-> sig, bits_per_sample |-> bits,
     stream |-> smp, dec_fail |-> fail, tags |-> tags]

\* the files of the corpora: the same audio under two different tag blocks,
\* a file with an unset header signature that decodes, a file FLAC() rejects,
\* an unset signature over 32-bit audio, and an unset signature whose decoder
\* raises an exception with an empty message
DiskFiles ==
    { DiskFile(None, SignatureA, 16, <<>>, None, "t1"),
      DiskFile(None, SignatureA, 16, <<>>, None, "t2"),
      DiskFile(None, ZeroSignature, 16, <<1>>, None, "t1"),
      DiskFile(Some("not a valid FLAC file"), <<>>, 0, <<>>, None, "t1"),
      DiskFile(None, ZeroSignature, 32, <<>>, None, "t1"),
      DiskFile(None, ZeroSignature, 16, <<>>, Some([after |-> 0, msg |-> ""]), "t1") }

\* what _get_audio_signature makes of each stored file, whatever its path
SignatureOf ==
    [d \in DiskFiles |->
        GetAudioSignature("", d.tag_fail, d.md5_signature, d.bits_per_sample,
                          d.stream, d.dec_fail).ret]

\* _get_audio_signature(p) on the file stored at p
Worker(p) == <<p, SignatureOf[disk[p]][2], SignatureOf[disk[p]][3]>>

\* get_file_content_hash(p): SHA-256 of the whole file, which tells two files
\* apart exactly when their bytes differ
GetFileContentHash(p) == <<"sha256", disk[p]>>

\* workers is not None and workers == 1
Sequential(w) == w /= None /\ w[1] = 1

\* a map that only looks at the key inserted last
MapAppend_LastOnly(map, k, f) ==
    IF Len(map) > 0 /\ map[Len(map)].key = k
       THEN [map EXCEPT ![Len(map)].val = Append(@, f)]
       ELSE Append(map, [key |-> k, val |-> <<f>>])

\* a map that keeps only the newest file of a key
MapAppend_Overwrite(map, k, f) ==
    IF \E i \in 1..Len(map) : map[i].key = k
       THEN [i \in 1..Len(map) |->
               IF map[i].key = k THEN [map[i] EXCEPT !.val = <<f>>] ELSE map[i]]
       ELSE Append(map, [key |-> k, val |-> <<f>>])

\* defaultdict(list): map[k].append(f); a new key goes to the end
MapAppend(map, k, f) ==
    IF \E i \in 1..Len(map) : map[i].key = k
       THEN [i \in 1..Len(map) |->
               IF map[i].key = k THEN [map[i] EXCEPT !.val = Append(@, f)] ELSE map[i]]
       ELSE Append(map, [key |-> k, val |-> <<f>>])

\* the body of both result loops: if err: warn; elif sig_hex: append
CollectMap(map, ret) ==
    IF Truthy(ret[3]) THEN map
    ELSE IF Truthy(ret[2]) THEN MapAppend(map, ret[2][1], ret[1])
    ELSE map

CollectLog(log, ret) ==
    IF Truthy(ret[3]) THEN [log EXCEPT ![ret[1]] = @ + 1] ELSE log

IsPotentialDuplicate(v) == Len(v) > 1

\* every bucket goes to verification
PotentialDuplicates_All(map) == map

\* {k: v for k, v in audio_map.items() if len(v) > 1}
PotentialDuplicates(map) == SelectSeq(map, LAMBDA e : IsPotentialDuplicate(e.val))

\* every byte-hash class is a strict group
IsStrictGroup_Any(g) == Len(g) > 0

\* len(g) > 1
IsStrictGroup(g) == Len(g) > 1

\* content_map after the loop over file_group
RECURSIVE ContentMap(_, _)
ContentMap(file_group, content_map) ==
    IF file_group = <<>> THEN content_map
    ELSE ContentMap(Tail(file_group),
                    MapAppend(content_map, GetFileContentHash(Head(file_group)),
                              Head(file_group)))

StrictGroups(file_group) ==
    LET cm   == ContentMap(file_group, <<>>)
        kept == SelectSeq(cm, LAMBDA e : IsStrictGroup(e.val))
    IN  [i \in 1..Len(kept) |-> kept[i].val]

DuplicateGroup(e) ==
    [audio_md5 |-> e.key, files |-> e.val, strict_groups |-> StrictGroups(e.val)]

\* the results list built by the verification loop
VerifyResults(map) ==
    LET pd == PotentialDuplicates(map)
    IN  [i \in 1..Len(pd) |-> DuplicateGroup(pd[i])]

\* the calls of get_file_content_hash the verification loop makes, in order
RECURSIVE HashCalls(_)
HashCalls(pd) ==
    IF pd = <<>> THEN <<>> ELSE Head(pd).val \o HashCalls(Tail(pd))

\* what a run found, without the orders: the buckets, and the groups with
\* their strict groups
BucketSets(map) ==
    { [key |-> map[i].key, files |-> { map[i].val[j] : j \in 1..Len(map[i].val) }] :
      i \in 1..Len(map) }
GroupSets(res) ==
    { [audio_md5 |-> res[i].audio_md5,
       files |-> { res[i].files[j] : j \in 1..Len(res[i].files) },
       strict_groups |->
          { { res[i].strict_groups[g][j] : j \in 1..Len(res[i].strict_groups[g]) } :
            g \in 1..Len(res[i].strict_groups) }] :
      i \in 1..Len(res) }

\* find_flac_files(target_paths) over a directory that holds the files 1..n:
\* the target 0 is the directory and yields all of them, a target k >= 1 is
\* the file k and yields it; nothing is left out because it was yielded before
RECURSIVE FindFlacFiles(_, _)
FindFlacFiles(target_paths, n) ==
    IF target_paths = <<>> THEN <<>>
    ELSE (IF Head(target_paths) = 0 THEN [i \in 1..n |-> i] ELSE <<Head(target_paths)>>)
         \o FindFlacFiles(Tail(target_paths), n)

\* the target lists: the directory alone, or the directory and then one of
\* its files again, as long as the list of files stays within max
TargetLists(n, max) ==
    {<<0>>} \cup (IF n < max THEN { <<0, k>> : k \in 1..n } ELSE {})

DedupeInit(max, runs) ==
    /\ \E n \in 0..max :
          /\ disk \in [1..n -> DiskFiles]
          /\ \E target_paths \in TargetLists(n, max) :
                files = FindFlacFiles(target_paths, n)
          /\ skipped = [p \in 1..n |-> 0]
    /\ workers \in {Some(1), None}
    /\ d_pc = "start"
    /\ d_i = 0
    /\ d_pending = {}
    /\ audio_map = <<>>
    /\ d_hashed = <<>>
    /\ results = <<>>
    /\ d_runs_left = runs
    /\ d_first = <<>>
    /\ printed = <<>>
    /\ ScanIdle /\ ValIdle /\ AudioIdle /\ Md5Idle /\ SigIdle /\ AnaIdle /\ CliIdle /\ RepIdle

notDedupe == <<scanVars, valVars, audioVars, md5Vars, sigVars, anaVars, cliVars, repVars>>

\* files = list(...); if not files: return []; the parallel branch submits
\* one future per file
ListFiles ==
    /\ d_pc = "start"
    /\ IF files = <<>>
          THEN d_pc' = "done" /\ d_pending' = {}
          ELSE /\ d_pc' = "scan"
               /\ d_pending' = IF Sequential(workers) THEN {} ELSE 1..Len(files)
    /\ UNCHANGED <<disk, files, workers, d_i, audio_map, skipped, d_hashed, results,
                   d_runs_left, d_first, printed, notDedupe>>

\* one turn of the sequential loop
SeqStep ==
    /\ d_pc = "scan"
    /\ Sequential(workers)
    /\ d_i < Len(files)
    /\ LET ret == Worker(files[d_i + 1])
       IN  /\ audio_map' = CollectMap(audio_map, ret)
           /\ skipped' = CollectLog(skipped, ret)
    /\ d_i' = d_i + 1
    /\ d_pc' = IF d_i + 1 = Len(files) THEN "verify" ELSE "scan"
    /\ UNCHANGED <<disk, files, workers, d_pending, d_hashed, results,
                   d_runs_left, d_first, printed, notDedupe>>

\* one turn of the loop over as_completed(futures): any future that has not
\* been yielded yet can be the next to complete
ParStep ==
    /\ d_pc = "scan"
    /\ ~Sequential(workers)
    /\ \E i \in d_pending :
          /\ LET ret == Worker(files[i])
             IN  /\ audio_map' = CollectMap(audio_map, ret)
                 /\ skipped' = CollectLog(skipped, ret)
          /\ d_pending' = d_pending \ {i}
          /\ d_pc' = IF d_pending = {i} THEN "verify" ELSE "scan"
    /\ UNCHANGED <<disk, files, workers, d_i, d_hashed, results,
                   d_runs_left, d_first, printed, notDedupe>>

\* the verification loop, every file still readable
Verify ==
    /\ d_pc = "verify"
    /\ results' = VerifyResults(audio_map)
    /\ d_hashed' = HashCalls(PotentialDuplicates(audio_map))
    /\ d_pc' = "done"
    /\ UNCHANGED <<disk, files, workers, d_i, d_pending, audio_map, skipped,
                   d_runs_left, d_first, printed, notDedupe>>

\* the verification loop when open() or read() of the k-th file to hash
\* raises: nothing catches the exception, it leaves find_duplicates
VerifyRaises ==
    /\ d_pc = "verify"
    /\ \E k \in 1..Len(HashCalls(PotentialDuplicates(audio_map))) :
          d_hashed' = SubSeq(HashCalls(PotentialDuplicates(audio_map)), 1, k)
    /\ d_pc' = "raised"
    /\ UNCHANGED <<disk, files, workers, d_i, d_pending, audio_map, skipped, results,
                   d_runs_left, d_first, printed, notDedupe>>

\* find_duplicates is called again on the same corpus
Rerun ==
    /\ d_pc = "done"
    /\ d_runs_left > 0
    /\ d_first' = Some([buckets |-> BucketSets(audio_map), groups |-> GroupSets(results)])
    /\ d_runs_left' = d_runs_left - 1
    /\ d_pc' = "start"
    /\ d_i' = 0
    /\ d_pending' = {}
    /\ audio_map' = <<>>
    /\ skipped' = [p \in DOMAIN skipped |-> 0]
    /\ d_hashed' = <<>>
    /\ results' = <<>>
    /\ UNCHANGED <<disk, files, workers, printed, notDedupe>>

\* one line of the report: what kind of line it is, the number or the path
\* it shows (0 for none) and the digest it shows ("" for none)
Line(kind, arg, text) == [kind |-> kind, arg |-> arg, text |-> text]

\* the lines of the strict groups: the first file, the other files, the
\* end marker and an empty line, for each strict group in turn
RECURSIVE StrictLines(_)
StrictLines(strict_groups) ==
    IF strict_groups = <<>> THEN <<>>
    ELSE LET s_group == Head(strict_groups)
         IN  <<Line("strict", s_group[1], "")>>
             \o [k \in 1..(Len(s_group) - 1) |-> Line("strict", s_group[k + 1], "")]
             \o <<Line("end", 0, ""), Line("blank", 0, "")>>
             \o StrictLines(Tail(strict_groups))

\* processed_files after the strict groups were printed
ProcessedFiles(strict_groups) ==
    UNION { { strict_groups[s][k] : k \in 1..Len(strict_groups[s]) } :
            s \in 1..Len(strict_groups) }

\* the lines of the i-th group
GroupLines(i, group) ==
    LET remaining == SelectSeq(group.files,
                               LAMBDA f : f \notin ProcessedFiles(group.strict_groups))
    IN  <<Line("group", i, group.audio_md5), Line("rule", 0, "")>>
        \o (IF group.strict_groups /= <<>>
               THEN <<Line("strict_label", 0, "")>> \o StrictLines(group.strict_groups)
               ELSE <<>>)
        \o (IF remaining /= <<>>
               THEN <<Line(IF group.strict_groups /= <<>> THEN "audio_only_label"
                                                          ELSE "audio_label", 0, "")>>
                    \o [k \in 1..Len(remaining) |-> Line("audio", remaining[k], "")]
               ELSE <<>>)
        \o <<Line("blank", 0, "")>>

RECURSIVE ReportFrom(_, _)
ReportFrom(rs, i) ==
    IF i > Len(rs) THEN <<>> ELSE GroupLines(i, rs[i]) \o ReportFrom(rs, i + 1)

\* print_duplicate_report(results)
DuplicateReport(rs) ==
    IF rs = <<>> THEN <<Line("none", 0, "")>>
    ELSE <<Line("found", Len(rs), "")>> \o ReportFrom(rs, 1)

\* the dedupe command prints the report of what find_duplicates returned
PrintDuplicateReport ==
    /\ d_pc = "done"
    /\ d_runs_left = 0
    /\ printed' = DuplicateReport(results)
    /\ d_pc' = "reported"
    /\ UNCHANGED <<disk, files, workers, d_i, d_pending, audio_map, skipped, d_hashed,
                   results, d_runs_left, d_first, notDedupe>>

DedupeNext == ListFiles \/ SeqStep \/ ParStep \/ Verify \/ VerifyRaises \/ PrintDuplicateReport
DedupeTwiceNext == ListFiles \/ SeqStep \/ ParStep \/ Verify \/ Rerun

SpecDedupe == DedupeInit(MaxFiles, 0) /\ [][DedupeNext]_vars
SpecDedupeTwice == DedupeInit(MaxFilesTwice, 1) /\ [][DedupeTwiceNext]_vars

----------------------------------------------------------------------------
(* analyze_flac_comprehensive *)

\* the files analysed: a STREAMINFO block that is last; a lone PADDING block
\* that is last; a STREAMINFO block and then the end of the file; a
\* STREAMINFO block and a last SEEKTABLE block of 19 bytes; a file that does
\* not begin with the signature; an empty file
AnalyzeFiles ==
    { FLAC_SIGNATURE \o <<128, 0, 0, 0>>,
      FLAC_SIGNATURE \o <<129, 0, 0, 0>>,
      FLAC_SIGNATURE \o <<0, 0, 0, 0>>,
      FLAC_SIGNATURE \o <<0, 0, 0, 0, 131, 0, 0, 19>>,
      <<79, 103, 103, 83>>,
      <<>> }

\* str(e) of the ValidationError of validate_filename, its value field removed
NameErrors == {"[PV1100] invalid characters found: platform=universal"}

\* [f"Header Error: {e}" for e in header_analysis['errors']]
HeaderErrors(hi) == [i \in 1..Len(hi.errors) |-> "Header Error: " \o hi.errors[i]]

\* format(audio.info.md5_signature, '032x') if audio.info.md5_signature else None
Md5Header(sig) == IF SignatureUnset(sig) THEN None ELSE Some(FormatHex032(sig))

\* str() of an Optional[str] inside an f-string
PyStr(o) == IF o = None THEN "None" ELSE o[1]

MismatchMessage(h, c) ==
    "MD5 Mismatch: Header=" \o PyStr(h) \o ", Calculated=" \o PyStr(c)

Md5ErrorMessage(err) == "MD5 Calculation Error: " \o PyStr(err)

ERR_MD5_UNSET == "MD5 signature is unset (0) in header."

\* a comparison that does not ask whether the header carries a signature
Mismatch_NoHeaderTest(h, c) == Truthy(c) /\ h /= c

\* md5_header and md5_calculated and md5_header != md5_calculated
Mismatch(h, c) == Truthy(h) /\ Truthy(c) /\ h /= c

\* the chain without its last branch
Md5Findings_NoUnsetRule(h, c, err) ==
    IF Truthy(err) THEN <<Md5ErrorMessage(err)>>
    ELSE IF Mismatch(h, c) THEN <<MismatchMessage(h, c)>>
    ELSE <<>>

\* the if / elif / elif over md5_error, md5_header and md5_calculated
Md5Findings(h, c, err) ==
    IF Truthy(err) THEN <<Md5ErrorMessage(err)>>
    ELSE IF Mismatch(h, c) THEN <<MismatchMessage(h, c)>>
    ELSE IF ~Truthy(h) THEN <<ERR_MD5_UNSET>>
    ELSE <<>>

\* _analyze_filename_compatibility(file_path.name)
FilenameWarnings(ne) ==
    IF ne = None THEN <<>> ELSE <<"Filename Warning: " \o ne[1]>>

\* 'Filename' in w: the warnings of the model all come from FilenameWarnings
MentionsFilename(w) == \E m \in NameErrors : w = "Filename Warning: " \o m

\* a derivation that takes no notice of the warnings
DeriveStatus_NoWarnings(errors, warnings) ==
    IF errors = <<>> THEN "VALID" ELSE "INVALID"

\* status starts as 'INVALID'; if not errors: 'VALID (with warnings)' if
\* warnings else 'VALID'
DeriveStatus(errors, warnings) ==
    IF errors = <<>>
       THEN IF warnings /= <<>> THEN "VALID (with warnings)" ELSE "VALID"
       ELSE "INVALID"

\* _generate_repair_suggestions(result)
GenerateRepairSuggestions(status, warnings) ==
    IF status = "INVALID"
       THEN <<[action |-> "reencode", reason |-> "Structural corruption detected."]>>
    ELSE IF warnings /= <<>> /\ \E i \in 1..Len(warnings) : MentionsFilename(warnings[i])
       THEN <<[action |-> "rename", reason |-> "Non-standard filename."]>>
    ELSE <<>>

\* analyze_flac_comprehensive after the block scan returned hi: the validator,
\* the try block with its two except branches, the status and the suggestions
AnalyzeFlacComprehensive(hi, tagfail, structural, sig, bits, smp, fail, ne) ==
    LET before == HeaderErrors(hi) \o AnalyzeMetadataBlocks(hi.metadata_blocks)
        r      == CalculateAudioMd5(bits, smp, fail)
        h      == Md5Header(sig)
        errors == IF tagfail /= None
                     THEN Append(before,
                                 (IF structural THEN "Structure Error: "
                                                ELSE "Generic Error: ") \o tagfail[1])
                     ELSE before \o Md5Findings(h, r.md5, r.err)
        warnings == IF tagfail /= None THEN <<>> ELSE FilenameWarnings(ne)
        status == DeriveStatus(errors, warnings)
    IN  [status |-> status, errors |-> errors, warnings |-> warnings,
         md5_header |-> IF tagfail /= None THEN None ELSE h,
         md5_calculated |-> IF tagfail /= None THEN None ELSE r.md5,
         repair_suggestions |-> GenerateRepairSuggestions(status, warnings)]

\* the signature the encoder would have written for the audio of the file
TrueSignature == Md5Digest(CalculateAudioMd5(bits_per_sample, stream, None).fed)

AnaInit ==
    /\ file \in AnalyzeFiles
    /\ f_pos = 0
    /\ pc = "open"
    /\ header_info = [is_flac |-> FALSE, metadata_blocks |-> <<>>, errors |-> <<>>]
    /\ io_trace = <<>>
    /\ \/ /\ tag_fail = None
          /\ a_structural = FALSE
          /\ AudioInit(MaxAnaSamples)
          /\ md5_signature \in SignatureValues \cup {TrueSignature}
       \/ /\ tag_fail \in {Some(m) : m \in TagErrors}
          /\ a_structural \in BOOLEAN
          /\ md5_signature = <<>>
          /\ AudioIdle
    /\ name_error \in {None} \cup {Some(m) : m \in NameErrors}
    /\ a_pc = "scan"
    /\ a_result = <<>>
    /\ s_pc = "idle"
    /\ s_result = <<>>
    /\ s_engine_calls = 0
    /\ ValIdle /\ Md5Idle /\ DedupeIdle /\ CliIdle /\ RepIdle

\* everything that follows the return of _check_file_header_manually
Aggregate ==
    /\ a_pc = "scan"
    /\ pc = "done"
    /\ a_result' = AnalyzeFlacComprehensive(header_info, tag_fail, a_structural,
                                            md5_signature, bits_per_sample, stream,
                                            dec_fail, name_error)
    /\ a_pc' = "done"
    /\ UNCHANGED <<a_structural, name_error, scanVars, valVars, audioVars, md5Vars,
                   sigVars, dedupeVars, cliVars, repVars>>

AnaNext == ScanNext \/ Aggregate

SpecAnalyze == AnaInit /\ [][AnaNext]_vars

----------------------------------------------------------------------------
(* The analyze, repair and dedupe commands: worker pool and collection *)

\* the largest max_workers ProcessPoolExecutor accepts on Windows
WindowsWorkerCap == 61

\* analyze: ProcessPoolExecutor(max_workers=workers)
AnalyzePoolWorkers(w) == w

\* repair: workers above 61 are set to 61 before the pool is created
RepairPoolWorkers(w) ==
    IF w /= None /\ w[1] > WindowsWorkerCap THEN Some(WindowsWorkerCap) ELSE w

\* find_duplicates: effective_workers is workers, or os.cpu_count() when
\* workers is None or 0, and is set to 61 when it is above 61
DedupePoolWorkers(w, cpu) ==
    LET effective_workers == IF w /= None /\ w[1] /= 0 THEN w ELSE cpu
    IN  IF effective_workers /= None /\ effective_workers[1] /= 0
           /\ effective_workers[1] > WindowsWorkerCap
        THEN Some(WindowsWorkerCap)
        ELSE effective_workers

\* the dedupe command calls find_duplicates without a workers argument
CliInit ==
    /\ c_pc = "start"
    /\ c_cmd \in {"analyze", "repair", "dedupe"}
    /\ c_workers \in IF c_cmd = "dedupe" THEN {None}
                     ELSE {None} \cup { Some(w) : w \in {1, 2} \cup
                                         ((WindowsWorkerCap - 1)..MaxWorkerRequest) }
    /\ c_cpu \in {None, Some(4), Some(MaxWorkerRequest)}
    /\ c_nfiles \in 0..MaxCliFiles
    /\ c_max_workers = <<>>
    /\ c_pending = {}
    /\ c_results = <<>>
    /\ ScanIdle /\ ValIdle /\ AudioIdle /\ Md5Idle /\ SigIdle /\ DedupeIdle
    /\ AnaIdle /\ RepIdle

\* analyze up to the pool: no files, the sequential list comprehension, or
\* the pool with one future per file
StartAnalyze ==
    /\ c_pc = "start"
    /\ c_cmd = "analyze"
    /\ IF c_nfiles = 0
          THEN c_pc' = "done" /\ UNCHANGED <<c_max_workers, c_pending, c_results>>
          ELSE IF c_workers /= None /\ c_workers[1] = 1
          THEN /\ c_results' = [i \in 1..c_nfiles |-> i]
               /\ c_pc' = "done"
               /\ UNCHANGED <<c_max_workers, c_pending>>
          ELSE /\ c_max_workers' = <<AnalyzePoolWorkers(c_workers)>>
               /\ c_pending' = 1..c_nfiles
               /\ c_pc' = "pool"
               /\ UNCHANGED c_results
    /\ UNCHANGED <<c_cmd, c_workers, c_cpu, c_nfiles, scanVars, valVars, audioVars,
                   md5Vars, sigVars, dedupeVars, anaVars, repVars>>

\* repair up to the pool; the sequential loop keeps no results
StartRepair ==
    /\ c_pc = "start"
    /\ c_cmd = "repair"
    /\ IF c_nfiles = 0 \/ RepairPoolWorkers(c_workers) = Some(1)
          THEN c_pc' = "done" /\ UNCHANGED <<c_max_workers, c_pending>>
          ELSE /\ c_max_workers' = <<RepairPoolWorkers(c_workers)>>
               /\ c_pending' = 1..c_nfiles
               /\ c_pc' = "pool"
    /\ UNCHANGED <<c_cmd, c_workers, c_cpu, c_nfiles, c_results, scanVars, valVars,
                   audioVars, md5Vars, sigVars, dedupeVars, anaVars, repVars>>

\* dedupe up to the pool of find_duplicates
StartDedupe ==
    /\ c_pc = "start"
    /\ c_cmd = "dedupe"
    /\ IF c_nfiles = 0
          THEN c_pc' = "done" /\ UNCHANGED <<c_max_workers, c_pending>>
          ELSE /\ c_max_workers' = <<DedupePoolWorkers(c_workers, c_cpu)>>
               /\ c_pending' = 1..c_nfiles
               /\ c_pc' = "pool"
    /\ UNCHANGED <<c_cmd, c_workers, c_cpu, c_nfiles, c_results, scanVars, valVars,
                   audioVars, md5Vars, sigVars, dedupeVars, anaVars, repVars>>

\* one turn of the loop over as_completed(futures): any future not yet
\* yielded can be the next; analyze appends its result to results
Collect ==
    /\ c_pc = "pool"
    /\ \E i \in c_pending :
          /\ c_pending' = c_pending \ {i}
          /\ c_results' = IF c_cmd = "analyze" THEN Append(c_results, i) ELSE c_results
          /\ c_pc' = IF c_pending = {i} THEN "done" ELSE "pool"
    /\ UNCHANGED <<c_cmd, c_workers, c_cpu, c_nfiles, c_max_workers, scanVars, valVars,
                   audioVars, md5Vars, sigVars, dedupeVars, anaVars, repVars>>

CliNext == StartAnalyze \/ StartRepair \/ StartDedupe \/ Collect

SpecCli == CliInit /\ [][CliNext]_vars

----------------------------------------------------------------------------
(* reencode_flac: the encoder run, the clean-up and the swap *)

\* r_fs.path is what is at input_path: orig, new (the re-encoded file) or
\* none; r_fs.temp is what is at temp_output_path: none, partial or new;
\* r_fs.quarantine is what is at the destination in the quarantine folder:
\* none, old (an earlier file of that name), partial or orig
RepInit ==
    /\ r_pc = "start"
    /\ r_tool \in {"flac", "ffmpeg", "none"}
    /\ r_windows \in BOOLEAN
    /\ r_no_backup \in BOOLEAN
    /\ \E q \in {"none", "old"} : r_fs = [path |-> "orig", temp |-> "none", quarantine |-> q]
    /\ r_ret = "unset"
    /\ ScanIdle /\ ValIdle /\ AudioIdle /\ Md5Idle /\ SigIdle /\ DedupeIdle
    /\ AnaIdle /\ CliIdle

\* the encoder that shutil.which finds is run: it exits with 0 and the
\* re-encoded file is at the temporary path, it exits with another code, or
\* subprocess.run raises; after exit code 0 _copy_metadata rewrites the tags
\* of the temporary file and raises nothing
RunEncoder ==
    /\ r_pc = "start"
    /\ IF r_tool = "none"
          THEN r_pc' = "failed" /\ UNCHANGED r_fs
          ELSE \/ r_fs' = [r_fs EXCEPT !.temp = "new"] /\ r_pc' = "swap"
               \/ /\ \E t \in {"none", "partial"} : r_fs' = [r_fs EXCEPT !.temp = t]
                  /\ r_pc' \in {"failed", "except"}
    /\ UNCHANGED <<r_tool, r_windows, r_no_backup, r_ret, scanVars, valVars, audioVars,
                   md5Vars, sigVars, dedupeVars, anaVars, cliVars>>

\* if not success: the temporary file is unlinked when it exists, and None
\* is returned; when unlink raises, the except clause takes over
CleanupFailed ==
    /\ r_pc = "failed"
    /\ \/ /\ r_fs' = [r_fs EXCEPT !.temp = "none"]
          /\ r_ret' = "None"
          /\ r_pc' = "done"
       \/ /\ r_fs.temp /= "none"
          /\ r_pc' = "except"
          /\ UNCHANGED <<r_fs, r_ret>>
    /\ UNCHANGED <<r_tool, r_windows, r_no_backup, scanVars, valVars, audioVars,
                   md5Vars, sigVars, dedupeVars, anaVars, cliVars>>

\* except Exception: the temporary file is unlinked when it exists, and
\* None is returned; when this unlink raises, the exception leaves
\* reencode_flac
ExceptHandler ==
    /\ r_pc = "except"
    /\ \/ /\ r_fs' = [r_fs EXCEPT !.temp = "none"]
          /\ r_ret' = "None"
          /\ r_pc' = "done"
       \/ /\ r_fs.temp /= "none"
          /\ r_pc' = "raised"
          /\ UNCHANGED <<r_fs, r_ret>>
    /\ UNCHANGED <<r_tool, r_windows, r_no_backup, scanVars, valVars, audioVars,
                   md5Vars, sigVars, dedupeVars, anaVars, cliVars>>

\* no_backup: input_path.unlink() succeeds, or raises OSError and the
\* original stays
DeleteOriginal ==
    /\ r_pc = "swap"
    /\ r_no_backup
    /\ \/ r_fs' = [r_fs EXCEPT !.path = "none"]
       \/ UNCHANGED r_fs
    /\ r_pc' = "rename"
    /\ UNCHANGED <<r_tool, r_windows, r_no_backup, r_ret, scanVars, valVars, audioVars,
                   md5Vars, sigVars, dedupeVars, anaVars, cliVars>>

\* backup mode, _quarantine_original: the original is moved to the quarantine
\* folder; or mkdir or the unlink of an earlier file fails; or the move fails
\* after the earlier file was unlinked, leaving nothing, a partial copy or
\* (when only the removal of the source failed) a full copy behind. After a
\* failure the temporary path is returned
QuarantineOriginal ==
    /\ r_pc = "swap"
    /\ ~r_no_backup
    /\ \/ /\ r_fs' = [r_fs EXCEPT !.path = "none", !.quarantine = "orig"]
          /\ r_pc' = "rename"
          /\ UNCHANGED r_ret
       \/ /\ \/ UNCHANGED r_fs
             \/ \E q \in {"none", "partial", "orig"} : r_fs' = [r_fs EXCEPT !.quarantine = q]
          /\ r_ret' = "temp"
          /\ r_pc' = "done"
    /\ UNCHANGED <<r_tool, r_windows, r_no_backup, scanVars, valVars, audioVars,
                   md5Vars, sigVars, dedupeVars, anaVars, cliVars>>

\* temp_output_path.rename(input_path): it succeeds, replacing what is at
\* input_path (on Windows only when nothing is there), and input_path is
\* returned; or it raises OSError and the temporary path is returned
RenameTemp ==
    /\ r_pc = "rename"
    /\ \/ /\ ~(r_windows /\ r_fs.path /= "none")
          /\ r_fs' = [r_fs EXCEPT !.path = "new", !.temp = "none"]
          /\ r_ret' = "input"
       \/ /\ r_ret' = "temp"
          /\ UNCHANGED r_fs
    /\ r_pc' = "done"
    /\ UNCHANGED <<r_tool, r_windows, r_no_backup, scanVars, valVars, audioVars,
                   md5Vars, sigVars, dedupeVars, anaVars, cliVars>>

RepNext ==
    \/ RunEncoder \/ CleanupFailed \/ ExceptHandler
    \/ DeleteOriginal \/ QuarantineOriginal \/ RenameTemp

SpecRepair == RepInit /\ [][RepNext]_vars

----------------------------------------------------------------------------
(* The components side by side *)

Init == ScanInit \/ ValInit \/ Md5Init \/ SigInit \/ DedupeInit(MaxFiles, 0) \/ AnaInit
        \/ CliInit \/ RepInit
Next == ScanNext \/ ValNext \/ Md5Next \/ SigNext \/ DedupeNext \/ Aggregate
        \/ CliNext \/ RepNext
Spec == Init /\ [][Next]_vars

----------------------------------------------------------------------------
(* Claims about the block scanner *)

ScanDone == pc = "done"
ScannedBlocks == header_info.metadata_blocks
ScanErrors == header_info.errors

\* the file begins with the four signature bytes
StartsWithSignature ==
    Len(file) >= HeaderLen /\ SubSeq(file, 1, HeaderLen) = FLAC_SIGNATURE

NoBlockIsLast == \A i \in 1..Len(ScannedBlocks) : ~ScannedBlocks[i].is_last

\* the offsets of the whole block headers that were read, in reading order
HeaderReads ==
    SelectSeq(io_trace, LAMBDA r : r.op = "read" /\ r.at >= HeaderLen /\ r.n = HeaderLen)

\* the block header found on disk at offset o, decoded arithmetically
DiskBlockAt(o) ==
    [type    |-> file[o + 1] % 128,
     length  |-> file[o + 2] * 65536 + file[o + 3] * 256 + file[o + 4],
     is_last |-> file[o + 1] >= 128]

\* C1: a file that does not begin with 'fLaC' (a file shorter than 4 bytes
\* included) is never marked is_flac, never gets a metadata block, sees no
\* read or seek beyond the first 4-byte read, and the scan returns with
\* exactly one error (the signature error once the file was opened).
C1_NonFlacRejected ==
    ~StartsWithSignature =>
        /\ header_info.is_flac = FALSE
        /\ ScannedBlocks = <<>>
        /\ Len(io_trace) <= 1
        /\ \A i \in 1..Len(io_trace) :
              io_trace[i] = [op |-> "read", at |-> 0, n |-> Min(HeaderLen, Len(file))]
        /\ ScanDone => Len(ScanErrors) = 1
        /\ (ScanDone /\ io_trace /= <<>>) => ScanErrors = <<ERR_SIGNATURE>>

\* a file of 8 bytes whose first four are 'fLaD' was opened, read once and
\* rejected
C1_Witness ==
    /\ ScanDone
    /\ ~StartsWithSignature
    /\ Len(file) >= 2 * HeaderLen
    /\ SubSeq(file, 1, 3) = SubSeq(FLAC_SIGNATURE, 1, 3)
    /\ Len(io_trace) = 1

\* C2: the block-scan loop terminates whatever the headers declare: an
\* iteration either takes the short-read branch and ends the loop, or moves
\* the position forward by at least 4 bytes; every header that was parsed
\* lies inside the file, so a file of n bytes allows at most (n - 4) / 4
\* parsed blocks; the scan always reaches its end; and a scan that ends with
\* no is_last block ended through the short-read branch.
C2_ScanTerminates ==
    /\ [][pc = "loop" =>
            \/ pc' = "done" /\ header_info'.errors = Append(ScanErrors, ERR_EOF)
            \/ f_pos' >= f_pos + HeaderLen]_vars
    /\ [](HeaderLen + HeaderLen * Len(ScannedBlocks) <= Len(file) \/ ~header_info.is_flac)
    /\ [](ScanDone /\ header_info.is_flac /\ NoBlockIsLast
            => ScanErrors = <<ERR_EOF>>)
    /\ <>ScanDone

\* a scan that ended by a short read after a zero-length block and a block
\* whose length points past the end of the file, none flagged last
C2_Witness ==
    /\ ScanDone
    /\ Len(ScannedBlocks) >= 2
    /\ NoBlockIsLast
    /\ ScannedBlocks[1].length = 0
    /\ f_pos > Len(file)
    /\ ScanErrors = <<ERR_EOF>>

\* C3: a scan of a file with a valid signature ends in exactly one of two
\* ways: (a) the final block is flagged last and there is no error, or (b)
\* the end-of-file error is recorded exactly once and no block is flagged
\* last.  In both, no block before the final one is flagged last and the
\* blocks are the headers found on disk, in on-disk order.
C3_ScanEndsOneOfTwoWays ==
    (ScanDone /\ header_info.is_flac) =>
        LET bs == ScannedBlocks
            n  == Len(bs)
            hr == HeaderReads
            endsAtLast == n > 0 /\ bs[n].is_last /\ ScanErrors = <<>>
            endsAtEof  == ScanErrors = <<ERR_EOF>> /\ NoBlockIsLast
        IN  /\ endsAtLast \/ endsAtEof
            /\ ~(endsAtLast /\ endsAtEof)
            /\ \A i \in 1..(n - 1) : ~bs[i].is_last
            /\ Len(hr) = n
            /\ \A i \in 1..n :
                  /\ hr[i].at = IF i = 1 THEN HeaderLen
                                ELSE hr[i - 1].at + HeaderLen + bs[i - 1].length
                  /\ bs[i] = DiskBlockAt(hr[i].at)

\* way (a) after two blocks, the first with a payload that was skipped
C3_WitnessLast ==
    /\ ScanDone
    /\ Len(ScannedBlocks) = 2
    /\ ScannedBlocks[1].length = 1
    /\ ScannedBlocks[2].is_last
    /\ ScanErrors = <<>>

----------------------------------------------------------------------------
(* Claims about the metadata validator *)

\* how many elements of the sequence s satisfy P
CountIf(s, P(_)) == Len(SelectSeq(s, P))

TypeZeroBlocks == CountIf(blocks, LAMBDA b : b.type = 0)

PaddingMessages == {PaddingError(l) : l \in BlockLengths}
SeektableMessages == {SeektableError(l) : l \in BlockLengths}

\* C4: the validator reports 'STREAMINFO block missing' exactly once for a
\* block list with no block of type 0 (the empty list included) and not at
\* all for a list with a block of type 0.
C4_StreaminfoMissingOnce ==
    v_pc = "done" =>
        CountIf(v_errors, LAMBDA e : e = ERR_STREAMINFO)
            = IF TypeZeroBlocks = 0 THEN 1 ELSE 0

\* the empty block list was validated and got the finding
C4_WitnessEmpty ==
    v_pc = "done" /\ blocks = <<>> /\ v_errors = <<ERR_STREAMINFO>>

\* the findings the padding rule owes for the block list bs at a threshold
OversizedPaddingFindings(bs, threshold) ==
    LET over == SelectSeq(bs, LAMBDA b : b.type = 1 /\ b.length > threshold)
    IN  [i \in 1..Len(over) |-> PaddingError(over[i].length)]

ScenarioA == <<[type |-> 1, length |-> 200000, is_last |-> TRUE]>>

\* C5: both validators emit one oversized-padding error for each block of
\* type 1 whose length is strictly greater than their threshold (16777216 in
\* flac_toolkit.analyzer, 131072 in main.py), in block order, and none for
\* any other block; one padding block of length 200000 checked at threshold
\* 131072 yields exactly one oversized-padding error.
C5_OversizedPaddingPerBlock ==
    /\ v_pc = "done" =>
          SelectSeq(v_errors, LAMBDA e : e \in PaddingMessages)
              = OversizedPaddingFindings(blocks, 16777216)
    /\ v_legacy_pc = "done" =>
          v_legacy_errors = OversizedPaddingFindings(blocks, 131072)
    /\ (v_legacy_pc = "done" /\ blocks = ScenarioA) =>
          v_legacy_errors =
             << "Metadata Error: PADDING block with abnormal size detected (195 KB). This indicates probable corruption." >>

\* Scenario A went through both validators: one finding at threshold 131072,
\* no padding finding at the packaged threshold
C5_WitnessScenarioA ==
    /\ blocks = ScenarioA
    /\ v_legacy_pc = "done"
    /\ Len(v_legacy_errors) = 1
    /\ v_pc = "done"
    /\ v_errors = <<ERR_STREAMINFO>>

\* the findings the seek-table rule owes for the block list bs
SeektableFindings(bs) ==
    LET bad == SelectSeq(bs, LAMBDA b :
                   b.type = 3 /\ b.length /= 18 * (b.length \div 18))
    IN  [i \in 1..Len(bad) |-> SeektableError(bad[i].length)]

ScenarioB == <<[type |-> 3, length |-> 19, is_last |-> TRUE]>>

\* C6: the validator emits one invalid-seek-table-size error for each block
\* of type 3 whose length is not a multiple of 18, in block order, and none
\* for a type-3 block whose length is a multiple of 18 (0 included); a single
\* seek-table block of length 19 yields exactly one such error.
C6_SeektableSizePerBlock ==
    /\ v_pc = "done" =>
          SelectSeq(v_errors, LAMBDA e : e \in SeektableMessages)
              = SeektableFindings(blocks)
    /\ (v_pc = "done" /\ blocks = ScenarioB) =>
          v_errors =
             << ERR_STREAMINFO,
                "Metadata Error: SEEKTABLE has invalid size (19 bytes), must be multiple of 18." >>

\* Scenario B was validated: one seek-table finding
C6_WitnessScenarioB ==
    /\ blocks = ScenarioB
    /\ v_pc = "done"
    /\ Len(SelectSeq(v_errors, LAMBDA e : e \in SeektableMessages)) = 1

NoStreaminfoFinding == \A i \in 1..Len(v_errors) : v_errors[i] /= ERR_STREAMINFO

\* C7 as claimed: a block list gets no stream-info finding exactly when it
\* holds exactly one block of type 0 (zero or more than one is reported).
C7_ExactlyOneStreaminfo ==
    v_pc = "done" => (NoStreaminfoFinding <=> TypeZeroBlocks = 1)

\* C7 as amended: a block list gets no stream-info finding exactly when it
\* holds at least one block of type 0; a list with no type-0 block is
\* reported, a list with more than one is not.
C7_AtLeastOneStreaminfo ==
    v_pc = "done" =>
        /\ NoStreaminfoFinding <=> TypeZeroBlocks >= 1
        /\ TypeZeroBlocks > 1 => v_errors = SeektableFindings(blocks)

\* two blocks of type 0 were validated and nothing was reported
C7_WitnessTwoStreaminfo ==
    v_pc = "done" /\ TypeZeroBlocks = 2 /\ v_errors = <<>>

----------------------------------------------------------------------------
(* Claims about the audio MD5 engine *)

\* C8: for a declared bit depth other than 16 and 24, _calculate_audio_md5
\* returns None for the fingerprint together with a non-empty error, and it
\* neither opens the decoder nor reads a sample block nor feeds the digest.
C8_UnsupportedDepthFails ==
    (m_pc = "done" /\ bits_per_sample \notin {16, 24}) =>
        /\ m_result.md5 = None
        /\ Truthy(m_result.err)
        /\ ~m_result.opened
        /\ m_result.blocks_read = 0
        /\ m_result.fed = <<>>

\* a 32-bit file with samples to decode got the 'not implemented' error
C8_Witness32Bit ==
    /\ m_pc = "done"
    /\ bits_per_sample = 32
    /\ Len(stream) >= 2
    /\ dec_fail = None
    /\ m_result.err = Some("MD5 calculation not implemented for 32-bit depth.")

\* the 3-byte little-endian two's-complement encoding of a 24-bit sample
Raw24(v) ==
    LET u == IF v >= 0 THEN v ELSE v + 16777216
    IN  <<u % 256, (u \div 256) % 256, u \div 65536>>

RECURSIVE Raw24Stream(_)
Raw24Stream(smp) ==
    IF smp = <<>> THEN <<>> ELSE Raw24(Head(smp)) \o Raw24Stream(Tail(smp))

\* C9: for 24-bit samples delivered as 32-bit containers v * 256, the bytes
\* fed to the checksum are the 3-byte little-endian two's-complement encodings
\* of the samples, negative ones included: the same bytes, hence the same
\* fingerprint, as for the samples supplied as raw 3-byte values.
C9_Pack24IsRaw24 ==
    (m_pc = "done" /\ bits_per_sample = 24 /\ dec_fail = None) =>
        /\ m_result.fed = Raw24Stream(stream)
        /\ m_result.md5 = Some(HexDigest(Raw24Stream(stream)))

\* a stream with the most negative sample, -1 and a positive sample was packed
C9_WitnessNegative ==
    /\ m_pc = "done"
    /\ bits_per_sample = 24
    /\ dec_fail = None
    /\ stream = <<-8388608, -1, 65536>>
    /\ m_result.fed = <<0, 0, 128, 255, 255, 255, 0, 0, 1>>

----------------------------------------------------------------------------
(* Claims about the audio-signature worker *)

HeaderSignatureSet ==
    tag_fail = None /\ (\E j \in 1..16 : md5_signature[j] /= 0)

\* C10: when the tags were read and the header-embedded fingerprint is not
\* zero, _get_audio_signature returns it as 32 hexadecimal digits, with no
\* error and without calling _calculate_audio_md5; it calls the engine (once)
\* exactly when the tags were read and the embedded fingerprint is zero.
C10_HeaderSignaturePreferred ==
    s_pc = "done" =>
        /\ HeaderSignatureSet =>
              /\ s_result = <<FILE_PATH, Some(HexOfNibbles(Nibbles(md5_signature))), None>>
              /\ Len(s_result[2][1]) = 32
              /\ s_engine_calls = 0
        /\ s_engine_calls = (IF tag_fail = None /\ md5_signature = ZeroSignature
                                THEN 1 ELSE 0)

\* a file with fingerprint 1 in its header and decodable 16-bit audio: the
\* header value was returned, padded, and the engine did not run
C10_WitnessHeader ==
    /\ s_pc = "done"
    /\ tag_fail = None
    /\ md5_signature = [j \in 1..16 |-> IF j = 16 THEN 1 ELSE 0]
    /\ bits_per_sample = 16 /\ Len(stream) = 2 /\ dec_fail = None
    /\ s_result = <<FILE_PATH, Some("00000000000000000000000000000001"), None>>
    /\ s_engine_calls = 0

----------------------------------------------------------------------------
(* Claims about find_duplicates *)

\* the fingerprint _get_audio_signature obtained for the file at p, or None
Fingerprint(p) == Worker(p)[2]

\* every future was collected, or the sequential loop is over
ScanOver == d_pc \in {"verify", "done", "raised", "reported"}

Returned == d_pc \in {"done", "reported"}

InBucket(p) ==
    \E i \in 1..Len(audio_map) : \E j \in 1..Len(audio_map[i].val) : audio_map[i].val[j] = p

\* how often the path p is listed in seq
Occurrences(seq, p) == Cardinality({ j \in 1..Len(seq) : seq[j] = p })

\* C11: once the signature scan is over, every file for which no fingerprint
\* was obtained is in no bucket and has exactly one 'Skipping' warning for
\* each time it is listed, in sequential and in parallel mode, whatever the
\* text of the error
C11_UnfingerprintedSkippedAndLogged ==
    ScanOver =>
        \A i \in 1..Len(files) :
            Fingerprint(files[i]) = None =>
                /\ ~InBucket(files[i])
                /\ skipped[files[i]] = Occurrences(files, files[i])

\* the first position of path p in the discovery order
PosOf(p) == CHOOSE i \in 1..Len(files) : files[i] = p /\ \A k \in 1..(i - 1) : files[k] /= p

Members(seq) == { seq[j] : j \in 1..Len(seq) }

\* the positions of the files whose fingerprint is fp
Holders(fp) == { i \in 1..Len(files) : Fingerprint(files[i]) = Some(fp) }

FirstHolder(fp) == CHOOSE i \in Holders(fp) : \A k \in Holders(fp) : i <= k

\* C12: when find_duplicates returns, there is exactly one group per
\* fingerprint shared by at least two fingerprinted files: every group has at
\* least 2 files, all with the group's fingerprint, no fingerprint has two
\* groups, no fingerprint of a single file is returned, and every fingerprinted
\* file whose fingerprint is shared is in its group, as often as it is listed;
\* the files are the entries of the list of discovered files
C12_OneGroupPerSharedFingerprint ==
    Returned =>
        /\ \A g \in 1..Len(results) :
              /\ Len(results[g].files) >= 2
              /\ \A j \in 1..Len(results[g].files) :
                    Fingerprint(results[g].files[j]) = Some(results[g].audio_md5)
              /\ \A h \in 1..Len(results) :
                    results[h].audio_md5 = results[g].audio_md5 => h = g
              /\ Cardinality(Holders(results[g].audio_md5)) >= 2
        /\ \A i \in 1..Len(files) :
              (/\ Truthy(Fingerprint(files[i]))
               /\ \E k \in 1..Len(files) :
                     k /= i /\ Fingerprint(files[k]) = Fingerprint(files[i]))
              => \E g \in 1..Len(results) :
                    /\ Some(results[g].audio_md5) = Fingerprint(files[i])
                    /\ Occurrences(results[g].files, files[i])
                          = Occurrences(files, files[i])

\* two groups are returned next to each other, by parallel workers
C12_WitnessTwoGroups ==
    Returned /\ ~Sequential(workers) /\ Len(results) = 2

\* the files of group g whose whole-file hash is that of file a
HashClass(g, a) ==
    { b \in Members(results[g].files) : GetFileContentHash(b) = GetFileContentHash(a) }

\* how many entries of group g have the whole-file hash of file a
HashClassSize(g, a) ==
    Cardinality({ j \in 1..Len(results[g].files) :
                    GetFileContentHash(results[g].files[j]) = GetFileContentHash(a) })

\* C13: in every returned group, strict_groups is exactly the set of
\* byte-hash classes of the group's files with at least 2 members: each strict
\* group is such a class, listed once, strict groups are pairwise disjoint,
\* two files of the group with the same byte hash share a strict group, and a
\* file whose byte hash is unique in the group is in no strict group
C13_StrictGroupsAreHashClasses ==
    Returned =>
        \A g \in 1..Len(results) :
            LET sg == results[g].strict_groups
            IN  /\ \A s \in 1..Len(sg) :
                      /\ Len(sg[s]) >= 2
                      /\ Members(sg[s]) \subseteq Members(results[g].files)
                      /\ Members(sg[s]) = HashClass(g, sg[s][1])
                      /\ \A a \in Members(sg[s]) :
                            Occurrences(sg[s], a) = Occurrences(results[g].files, a)
                /\ \A s, t \in 1..Len(sg) :
                      s /= t => Members(sg[s]) \cap Members(sg[t]) = {}
                /\ \A a \in Members(results[g].files) :
                      IF HashClassSize(g, a) >= 2
                         THEN \E s \in 1..Len(sg) : HashClass(g, a) = Members(sg[s])
                         ELSE \A s \in 1..Len(sg) : a \notin Members(sg[s])

\* three files with the same audio, two of them byte-identical: one group of
\* 3 with one strict group of 2
C13_WitnessScenarioC ==
    /\ Returned
    /\ \E g \in 1..Len(results) :
          /\ Len(results[g].files) = 3
          /\ Len(results[g].strict_groups) = 1
          /\ Len(results[g].strict_groups[1]) = 2

\* the bucket of audio_map that holds p has at least 2 files
InSharedBucket(p) ==
    \E i \in 1..Len(audio_map) : p \in Members(audio_map[i].val) /\ Len(audio_map[i].val) >= 2

\* C14: get_file_content_hash is only ever called on files of a bucket of at
\* least 2 files, and the members of a strict group all have the fingerprint
\* of their group: byte hashes are compared inside one bucket only
C14_HashOnlyInsideSharedBuckets ==
    /\ \A k \in 1..Len(d_hashed) : InSharedBucket(d_hashed[k])
    /\ \A g \in 1..Len(results) :
          \A s \in 1..Len(results[g].strict_groups) :
              \A a \in Members(results[g].strict_groups[s]) :
                  /\ a \in Members(results[g].files)
                  /\ Fingerprint(a) = Some(results[g].audio_md5)

\* a run that hashed the files of a group and left a fingerprinted file of a
\* singleton bucket unhashed
C14_WitnessSingletonNotHashed ==
    /\ Returned
    /\ d_hashed /= <<>>
    /\ \E i \in 1..Len(files) :
          /\ InBucket(files[i])
          /\ ~InSharedBucket(files[i])
          /\ files[i] \notin Members(d_hashed)

\* seq lists its paths in discovery order
InDiscoveryOrder(seq) ==
    \A a, b \in 1..Len(seq) : a < b => PosOf(seq[a]) <= PosOf(seq[b])

\* C15: the groups returned, and the files inside each group, follow the
\* discovery order of the input list, whatever the order in which the
\* parallel workers complete
C15_ResultsInDiscoveryOrder ==
    Returned =>
        /\ \A g \in 1..Len(results) : InDiscoveryOrder(results[g].files)
        /\ InDiscoveryOrder([g \in 1..Len(results) |->
                                files[FirstHolder(results[g].audio_md5)]])

\* C16: a second run of find_duplicates over the unchanged corpus finds the
\* buckets of the first run (same fingerprints, same set of files per bucket)
\* and the same groups with the same strict groups, in sequential and in
\* parallel mode under any order of completion
C16_SecondRunFindsTheSame ==
    (Returned /\ d_first /= None) =>
        /\ BucketSets(audio_map) = d_first[1].buckets
        /\ GroupSets(results) = d_first[1].groups

\* a second parallel run that returned a group with a strict group, its
\* files collected in another order than they were discovered
C16_WitnessSecondParallelRun ==
    /\ Returned
    /\ d_first /= None
    /\ ~Sequential(workers)
    /\ \E g \in 1..Len(results) :
          /\ results[g].strict_groups /= <<>>
          /\ ~InDiscoveryOrder(results[g].files)

\* C20: find_duplicates never ends with an exception: a file that became
\* unreadable after it was fingerprinted does not terminate the run
C20_RunNeverRaises == d_pc /= "raised"

----------------------------------------------------------------------------
(* Claims about analyze_flac_comprehensive *)

AnaDone == a_pc = "done"

\* what _calculate_audio_md5 returns for the audio of the analysed file
EngineResult == CalculateAudioMd5(bits_per_sample, stream, dec_fail)

\* FLAC(file_path) returned, so the checksum engine was called
ChecksumAttempted == tag_fail = None

\* C17: the status of a result is a total function of its final errors and
\* warnings: VALID exactly when both are empty, 'VALID (with warnings)'
\* exactly when errors is empty and warnings is not, INVALID exactly when
\* errors is not empty; a file whose block scan found no type-0 block is
\* INVALID and carries the 'STREAMINFO block missing' finding
C17_StatusFollowsFindings ==
    AnaDone =>
        /\ a_result.status \in {"VALID", "VALID (with warnings)", "INVALID"}
        /\ (a_result.status = "VALID")
              <=> (a_result.errors = <<>> /\ a_result.warnings = <<>>)
        /\ (a_result.status = "VALID (with warnings)")
              <=> (a_result.errors = <<>> /\ a_result.warnings /= <<>>)
        /\ (a_result.status = "INVALID") <=> (a_result.errors /= <<>>)
        /\ (\A i \in 1..Len(header_info.metadata_blocks) :
                 header_info.metadata_blocks[i].type /= 0)
              => /\ a_result.status = "INVALID"
                 /\ ERR_STREAMINFO \in Members(a_result.errors)

\* a file with a filename warning and no error
C17_WitnessValidWithWarnings ==
    AnaDone /\ a_result.status = "VALID (with warnings)"

HasMismatchFinding ==
    MismatchMessage(a_result.md5_header, a_result.md5_calculated)
        \in Members(a_result.errors)

\* C18: the result carries a checksum-mismatch finding exactly when the
\* header signature is non-zero, the checksum was computed successfully, and
\* the two differ; none when they are equal or when the header signature is 0
C18_MismatchExactlyWhenDiffer ==
    AnaDone =>
        (HasMismatchFinding <=>
            /\ ChecksumAttempted
            /\ ~SignatureUnset(md5_signature)
            /\ EngineResult.md5 /= None
            /\ EngineResult.err = None
            /\ FormatHex032(md5_signature) /= EngineResult.md5[1])

\* a file whose header signature is set and differs from the computed one
C18_WitnessMismatch == AnaDone /\ HasMismatchFinding

\* C19: whenever the checksum computation of an analysed file fails, whatever
\* the message of the failure, the result carries an MD5 calculation error
\* and its status is INVALID
C19_ChecksumFailureIsReported ==
    (AnaDone /\ ChecksumAttempted /\ EngineResult.md5 = None) =>
        /\ Md5ErrorMessage(EngineResult.err) \in Members(a_result.errors)
        /\ a_result.status = "INVALID"

----------------------------------------------------------------------------
(* Further claims about the block scanner *)

\* the four bytes of the i-th whole block header that was read
HeaderBytes(i) == SubSeq(file, HeaderReads[i].at + 1, HeaderReads[i].at + HeaderLen)

\* C23: for every 4-byte block header b0 b1 b2 b3 the scanner records
\* is_last = (b0 >= 128), type = b0 mod 128 and length = b1*65536 + b2*256 + b3,
\* so 0 <= type <= 127 and 0 <= length <= 2^24 - 1; and the step that appends
\* the block moves the position by exactly 4 + length bytes from the start of
\* the header
C23_HeaderDecoded ==
    /\ [](\A i \in 1..Len(ScannedBlocks) :
             LET b == HeaderBytes(i)
                 block == ScannedBlocks[i]
             IN  /\ block.is_last = (b[1] >= 128)
                 /\ block.type = b[1] % 128
                 /\ block.length = b[2] * 65536 + b[3] * 256 + b[4]
                 /\ 0 <= block.type /\ block.type <= 127
                 /\ 0 <= block.length /\ block.length <= 16777215)
    /\ [][Len(header_info'.metadata_blocks) = Len(ScannedBlocks) + 1 =>
            f_pos' = f_pos + HeaderLen
                       + header_info'.metadata_blocks[Len(ScannedBlocks) + 1].length]_vars

\* the header 255 255 255 255 was scanned: last, type 127, the largest length
C23_WitnessLargest ==
    /\ ScanDone
    /\ Len(ScannedBlocks) = 1
    /\ ScannedBlocks[1] = [type |-> 127, length |-> 16777215, is_last |-> TRUE]
    /\ f_pos = 2 * HeaderLen + 16777215

\* C26: with PADDING_SIZE_THRESHOLD_BYTES = 16777216 no block list produced
\* by the scanner triggers the oversized-padding error of
\* flac_toolkit.analyzer: every scanned length is at most 16777215 and the
\* validator reports no padding finding for any scanned block
C26_PaddingRuleNeverFires ==
    ScanDone =>
        \A i \in 1..Len(ScannedBlocks) :
            /\ ScannedBlocks[i].length <= 16777215
            /\ ~PaddingTooLarge(ScannedBlocks[i])
            /\ PaddingError(ScannedBlocks[i].length)
                  \notin { AnalyzeMetadataBlocks(ScannedBlocks)[k] :
                               k \in 1..Len(AnalyzeMetadataBlocks(ScannedBlocks)) }

\* a padding block of the largest length was scanned
C26_WitnessLargestPadding ==
    /\ ScanDone
    /\ \E i \in 1..Len(ScannedBlocks) :
          ScannedBlocks[i].type = PADDING_BLOCK_TYPE /\ ScannedBlocks[i].length = 16777215

\* the offset just behind the payload of the last of the blocks bs that
\* follow one another from offset o
RECURSIVE PayloadEnd(_, _)
PayloadEnd(bs, o) ==
    IF bs = <<>> THEN o ELSE PayloadEnd(Tail(bs), o + HeaderLen + Head(bs).length)

\* C28 as claimed: when the scan records no error, the payload of every
\* scanned block lies inside the file: 4 + sum of (4 + length) is at most the
\* file size
C28_PayloadsInsideFile ==
    (ScanDone /\ ScanErrors = <<>>) =>
        PayloadEnd(ScannedBlocks, HeaderLen) <= Len(file)

\* C28 as amended: when the scan records no error, the final block is flagged
\* last, and every block before it lies inside the file with its payload, as
\* does the header of the final block; the payload of the final block is not
\* looked at
C28_AllButLastPayloadInsideFile ==
    (ScanDone /\ ScanErrors = <<>>) =>
        /\ Len(ScannedBlocks) >= 1
        /\ ScannedBlocks[Len(ScannedBlocks)].is_last
        /\ PayloadEnd(SubSeq(ScannedBlocks, 1, Len(ScannedBlocks) - 1), HeaderLen)
              + HeaderLen <= Len(file)

\* a scan without error of two blocks, the first with a payload inside the
\* file, the last with a payload that ends behind the end of the file
C28_WitnessTruncatedLast ==
    /\ ScanDone
    /\ ScanErrors = <<>>
    /\ Len(ScannedBlocks) = 2
    /\ ScannedBlocks[1].length = 1
    /\ PayloadEnd(ScannedBlocks, HeaderLen) > Len(file)

----------------------------------------------------------------------------
(* Further claims about the metadata validator *)

\* the two lists hold the same findings the same number of times
SameFindings(a, b) ==
    \A e \in Members(a) \cup Members(b) :
        CountIf(a, LAMBDA x : x = e) = CountIf(b, LAMBDA x : x = e)

\* C24: the rules of the validator are additive and order-independent: the
\* number of findings is (1 if no block has type 0, else 0) + the number of
\* type-1 blocks over the threshold + the number of type-3 blocks whose
\* length is not a multiple of 18, and every permutation of the block list
\* gets the same findings the same number of times
C24_RulesAdditive ==
    v_pc = "done" =>
        /\ Len(v_errors)
              = (IF TypeZeroBlocks = 0 THEN 1 ELSE 0)
                + CountIf(blocks, LAMBDA b : b.type = 1 /\ b.length > 16777216)
                + CountIf(blocks, LAMBDA b : b.type = 3 /\ b.length % 18 /= 0)
        /\ \A p \in Permutations(DOMAIN blocks) :
              SameFindings(AnalyzeMetadataBlocks([i \in DOMAIN blocks |-> blocks[p[i]]]),
                           v_errors)

\* two different seek tables of a bad size and no stream-info block: three
\* findings, one per rule hit
C24_WitnessThreeFindings ==
    /\ v_pc = "done"
    /\ Len(blocks) = 2
    /\ blocks[1].length /= blocks[2].length
    /\ Len(v_errors) = 3

----------------------------------------------------------------------------
(* Further claims about analyze_flac_comprehensive *)

\* C27: a file whose header signature is zero and whose checksum computation
\* succeeds always gets the error 'MD5 signature is unset (0) in header.',
\* hence the status INVALID and a 'reencode' repair suggestion
C27_UnsetSignatureIsInvalid ==
    (/\ AnaDone
     /\ ChecksumAttempted
     /\ md5_signature = ZeroSignature
     /\ EngineResult.md5 /= None) =>
        /\ ERR_MD5_UNSET \in Members(a_result.errors)
        /\ a_result.status = "INVALID"
        /\ \E i \in 1..Len(a_result.repair_suggestions) :
              a_result.repair_suggestions[i].action = "reencode"

\* a file with no structural finding and no mismatch whose only error is
\* the unset signature
C27_WitnessOnlyUnset ==
    /\ AnaDone
    /\ ChecksumAttempted
    /\ md5_signature = ZeroSignature
    /\ EngineResult.md5 /= None
    /\ header_info.errors = <<>>
    /\ a_result.errors = <<ERR_MD5_UNSET>>
    /\ a_result.status = "INVALID"

----------------------------------------------------------------------------
(* Further claims about find_duplicates *)

\* C29: for every list of target paths, every returned group holds at least
\* two distinct paths, and so does every strict group: no file is reported
\* as a duplicate of itself
C29_NoSelfDuplicate ==
    Returned =>
        \A g \in 1..Len(results) :
            /\ Cardinality(Members(results[g].files)) >= 2
            /\ \A s \in 1..Len(results[g].strict_groups) :
                  Cardinality(Members(results[g].strict_groups[s])) >= 2

\* the dedupe command has printed its report
Reported == d_pc = "reported"

\* where the lines of the g-th group start and end in the report
SectionStart(g) ==
    CHOOSE k \in 1..Len(printed) : printed[k].kind = "group" /\ printed[k].arg = g

SectionEnd(g) ==
    IF g < Len(results) THEN SectionStart(g + 1) - 1 ELSE Len(printed)

\* the paths shown on the lines of one kind in the section of group g, in
\* the order they were printed
PrintedPaths(g, kind) ==
    LET section == SubSeq(printed, SectionStart(g), SectionEnd(g))
        chosen == SelectSeq(section, LAMBDA l : l.kind = kind)
    IN  [k \in 1..Len(chosen) |-> chosen[k].arg]

\* the positions in the report of the lines of one kind in the section of g
PrintedAt(g, kind) ==
    { k \in SectionStart(g)..SectionEnd(g) : printed[k].kind = kind }

RECURSIVE Flatten(_)
Flatten(seqs) == IF seqs = <<>> THEN <<>> ELSE Head(seqs) \o Flatten(Tail(seqs))

\* C25: in the printed report, for each group, the strict-group lines come
\* before the lines of the remaining files; the members of a strict group are
\* printed in the order of the strict group, which starts with the member
\* that was discovered first; and every file of the group is printed exactly
\* once, the strict members and the remainder being disjoint and together
\* the files of the group
C25_ReportOrderAndCoverage ==
    Reported =>
        \A g \in 1..Len(results) :
            LET strict == PrintedPaths(g, "strict")
                audio == PrintedPaths(g, "audio")
                sg == results[g].strict_groups
            IN  /\ \A a \in PrintedAt(g, "strict") : \A b \in PrintedAt(g, "audio") : a < b
                /\ strict = Flatten(sg)
                /\ Cardinality(PrintedAt(g, "end")) = Len(sg)
                /\ \A s \in 1..Len(sg) : \A k \in 1..Len(sg[s]) :
                      PosOf(sg[s][1]) <= PosOf(sg[s][k])
                /\ \A a \in Members(results[g].files) :
                      Occurrences(strict \o audio, a) = Occurrences(results[g].files, a)
                /\ Members(strict) \cap Members(audio) = {}
                /\ Members(strict) \cup Members(audio) = Members(results[g].files)

----------------------------------------------------------------------------
(* Claims about the commands *)

\* C21: when analyze has collected the results of its pool, the results are
\* in the order of the input files, whatever the order of completion
C21_AnalyzeResultsInInputOrder ==
    (c_cmd = "analyze" /\ c_pc = "done" /\ c_nfiles > 0) =>
        c_results = [i \in 1..c_nfiles |-> i]

\* C22: in analyze, repair and dedupe, the max_workers given to the process
\* pool is never above 61
C22_PoolWorkersCapped ==
    (c_max_workers /= <<>> /\ c_max_workers[1] /= None) =>
        c_max_workers[1][1] <= WindowsWorkerCap

----------------------------------------------------------------------------
(* Claims about reencode_flac *)

\* no encoder has exited with code 0 in this call
NoSuccessfulEncode ==
    r_pc \in {"start", "failed", "except", "raised"} \/ r_ret = "None"

\* the audio is still in a file: the original at its path or in the
\* quarantine folder, or the re-encoded file at the original or temporary path
AudioKept ==
    \/ r_fs.path \in {"orig", "new"}
    \/ r_fs.quarantine = "orig"
    \/ r_fs.temp = "new"

\* the original is untouched unless an encoder exited with 0
OriginalUntouchedUnlessEncoded == NoSuccessfulEncode => r_fs.path = "orig"

\* after a successful encode the audio is kept and a returned path names an
\* existing file
KeptAfterEncode ==
    /\ r_pc /= "idle" => AudioKept
    /\ r_ret = "input" => r_fs.path /= "none"
    /\ r_ret = "temp" => r_fs.temp = "new"

\* C30: the original is untouched at its path unless an encoder exited with
\* 0; when encoding fails or an unexpected error occurs the temporary file is
\* removed and None is returned (no exception leaves reencode_flac); after a
\* successful encode the audio is kept in at least one file and the returned
\* path names an existing file
C30_NeverLosesAudio ==
    /\ OriginalUntouchedUnlessEncoded
    /\ r_pc /= "raised"
    /\ r_ret = "None" => r_fs.temp = "none"
    /\ (r_pc = "done" /\ r_ret /= "None") => r_ret \in {"input", "temp"}
    /\ KeptAfterEncode

====
